---- MODULE Spec2Model ----
(***************************************************************************)
(* Model of the trust-score pallet (src/pallets/trust-score/src/lib.rs).   *)
(*                                                                         *)
(* State: the two storage items TrustScores and ValidatorList, the block   *)
(* height of frame_system, and the outcome of the most recent call (its    *)
(* arguments, its return value and the events it deposited).  The storage  *)
(* map of the banking_account pallet                                       *)
(* (src/pallets/banking_account/src/lib.rs) is modelled at the end, with a *)
(* specification of its own.                                               *)
(*                                                                         *)
(* trust_score is an f32 in the source.  The model keeps IEEE-754 binary32 *)
(* values exactly: a value is a record [s, m, e] standing for s * m * 2^e  *)
(* with a 24 bit significand, and +, -, *, / round to nearest, ties to     *)
(* even, as the hardware does.                                             *)
(***************************************************************************)
EXTENDS Integers, Sequences, FiniteSets

(***************************************************************************)
(* Bounds of the model.                                                    *)
(***************************************************************************)
MaxFailed == 13
MaxSucc == 1
MaxBlock == 1
MaxList == 3
MaxVoting == 1
MaxRun == 32
MaxSoloSucc == 2
MaxSoloFailed == 13

Validators == {"v1", "v2"}

(***************************************************************************)
(* IEEE-754 binary32 arithmetic.                                           *)
(***************************************************************************)
P2 == <<1, 2, 4, 8, 16, 32, 64, 128, 256, 512, 1024, 2048, 4096, 8192,
        16384, 32768, 65536, 131072, 262144, 524288, 1048576, 2097152,
        4194304, 8388608, 16777216, 33554432, 67108864, 134217728,
        268435456, 536870912, 1073741824>>

Pow2(n) == P2[n + 1]

SpecialExp == 999
EMin == 0 - 149
EMax == 104

F32(s, m, e) == [s |-> s, m |-> m, e |-> e]
Zero == F32(1, 0, 0)
Inf(s) == F32(s, 0, SpecialExp)
NaN == F32(1, 1, SpecialExp)

\* the values of the model: sign, significand, exponent
Sign == {1, 0 - 1}
Float == [s : Sign, m : Nat, e : Int]

IsNaN(a) == a.e = SpecialExp /\ a.m = 1
IsInf(a) == a.e = SpecialExp /\ a.m = 0
IsZero(a) == a.e # SpecialExp /\ a.m = 0

MaxI(a, b) == IF a >= b THEN a ELSE b
MinI(a, b) == IF a <= b THEN a ELSE b

\* the number of bits of M
BitLen[M \in Nat] ==
    IF M < 65536
    THEN IF M < 256
         THEN IF M < 16
              THEN IF M < 4 THEN (IF M < 2 THEN M ELSE 2) ELSE (IF M < 8 THEN 3 ELSE 4)
              ELSE IF M < 64 THEN (IF M < 32 THEN 5 ELSE 6) ELSE (IF M < 128 THEN 7 ELSE 8)
         ELSE IF M < 4096
              THEN IF M < 1024 THEN (IF M < 512 THEN 9 ELSE 10) ELSE (IF M < 2048 THEN 11 ELSE 12)
              ELSE IF M < 16384 THEN (IF M < 8192 THEN 13 ELSE 14) ELSE (IF M < 32768 THEN 15 ELSE 16)
    ELSE IF M < 16777216
         THEN IF M < 1048576
              THEN IF M < 262144 THEN (IF M < 131072 THEN 17 ELSE 18) ELSE (IF M < 524288 THEN 19 ELSE 20)
              ELSE IF M < 4194304 THEN (IF M < 2097152 THEN 21 ELSE 22) ELSE (IF M < 8388608 THEN 23 ELSE 24)
         ELSE IF M < 268435456
              THEN IF M < 67108864 THEN (IF M < 33554432 THEN 25 ELSE 26) ELSE (IF M < 134217728 THEN 27 ELSE 28)
              ELSE IF M < 1073741824 THEN (IF M < 536870912 THEN 29 ELSE 30) ELSE 31

\* q * 2^E, where q is a significand already cut to 24 bits or fewer and
\* rounded: the carry out of an all-ones significand and overflow to infinity
Pack[s \in Sign, q \in Nat, E \in Int] ==
    IF q = 0 THEN Zero
    ELSE IF q = Pow2(24)
         THEN (IF E + 1 > EMax THEN Inf(s) ELSE F32(s, Pow2(23), E + 1))
    ELSE IF E > EMax THEN Inf(s)
    ELSE F32(s, q, E)

\* M * 2^E cut by k > 0 bits, to nearest, ties to even; sticky says that a
\* non-zero fraction lies below the last bit of M
Cut[s \in Sign, M \in Nat, E \in Int, k \in Nat, sticky \in BOOLEAN] ==
    IF (M % Pow2(k)) > Pow2(k - 1)
       \/ ((M % Pow2(k)) = Pow2(k - 1) /\ (sticky \/ (M \div Pow2(k)) % 2 = 1))
    THEN Pack[s, (M \div Pow2(k)) + 1, E + k]
    ELSE Pack[s, M \div Pow2(k), E + k]

\* M * 2^E (plus a non-zero fraction below the last bit of M when sticky)
\* rounded to the nearest binary32, ties to even; overflow gives infinity,
\* results below 2^-126 are subnormal
Round[s \in Sign, M \in Nat, E \in Int, sticky \in BOOLEAN] ==
    IF M = 0 THEN Zero
    ELSE IF MaxI(BitLen[M] - 24, EMin - E) <= 0
         THEN F32(s, M * Pow2(0 - MaxI(BitLen[M] - 24, EMin - E)),
                  E + MaxI(BitLen[M] - 24, EMin - E))
    ELSE IF MaxI(BitLen[M] - 24, EMin - E) > 30 THEN Zero
    ELSE Cut[s, M, E, MaxI(BitLen[M] - 24, EMin - E), sticky]

\* zero is kept unsigned: the only zero divisor the pallet can produce is the
\* exact difference 1.0 - 1.0, which is +0.0
Neg[a \in Float] == IF IsNaN(a) \/ IsZero(a) THEN a ELSE F32(0 - a.s, a.m, a.e)

\* S * 2^E for a signed integer S
RoundSigned[S \in Int, E \in Int] ==
    IF S < 0 THEN Round[0 - 1, 0 - S, E, FALSE] ELSE Round[1, S, E, FALSE]

\* a + b for finite non-zero a and b with a.e - b.e > 6: b shifted right by
\* sh bits under a shifted left by 6
AddFar[a \in Float, b \in Float, sh \in Nat] ==
    IF a.s = b.s
    THEN Round[a.s, a.m * 64 + (b.m \div Pow2(sh)), a.e - 6, b.m % Pow2(sh) # 0]
    ELSE Round[a.s,
               a.m * 64 - (b.m \div Pow2(sh)) - (IF b.m % Pow2(sh) # 0 THEN 1 ELSE 0),
               a.e - 6, b.m % Pow2(sh) # 0]

\* a + b for finite non-zero a and b with a.e >= b.e
AddFinite[a \in Float, b \in Float] ==
    IF a.e - b.e <= 6
    THEN RoundSigned[a.s * a.m * Pow2(a.e - b.e) + b.s * b.m, b.e]
    ELSE AddFar[a, b, MinI(a.e - b.e - 6, 25)]

Add[a \in Float, b \in Float] ==
    IF IsNaN(a) \/ IsNaN(b) THEN NaN
    ELSE IF IsInf(a) THEN (IF IsInf(b) /\ b.s # a.s THEN NaN ELSE a)
    ELSE IF IsInf(b) THEN b
    ELSE IF IsZero(a) THEN b
    ELSE IF IsZero(b) THEN a
    ELSE IF a.e >= b.e THEN AddFinite[a, b] ELSE AddFinite[b, a]

Sub[a \in Float, b \in Float] == Add[a, Neg[b]]

\* (HI * 2^24 + LO) * 2^E for LO < 2^24
RoundWide[s \in Sign, HI \in Nat, LO \in Nat, E \in Int] ==
    Round[s, HI * 64 + (LO \div Pow2(18)), E + 18, LO % Pow2(18) # 0]

\* (hh * 2^24 + mid * 2^12 + ll) * 2^E: the partial products of two 24 bit
\* significands split into 12 bit halves
MulParts[s \in Sign, hh \in Nat, mid \in Nat, ll \in Nat, E \in Int] ==
    RoundWide[s,
              hh + (mid \div 4096) + (((mid % 4096) * 4096 + ll) \div Pow2(24)),
              ((mid % 4096) * 4096 + ll) % Pow2(24),
              E]

Mul[a \in Float, b \in Float] ==
    IF IsNaN(a) \/ IsNaN(b) THEN NaN
    ELSE IF IsInf(a) \/ IsInf(b)
         THEN (IF IsZero(a) \/ IsZero(b) THEN NaN ELSE Inf(a.s * b.s))
    ELSE IF IsZero(a) \/ IsZero(b) THEN Zero
    ELSE MulParts[a.s * b.s,
                  (a.m \div 4096) * (b.m \div 4096),
                  (a.m \div 4096) * (b.m % 4096) + (a.m % 4096) * (b.m \div 4096),
                  (a.m % 4096) * (b.m % 4096),
                  a.e + b.e]

\* long division: i more quotient bits after q, remainder r, divisor d;
\* the result is <<quotient, remainder>>
DivLoop[r \in Nat, d \in Nat, q \in Nat, i \in Nat] ==
    IF i = 0 THEN <<q, r>>
    ELSE IF 2 * r >= d THEN DivLoop[2 * r - d, d, 2 * q + 1, i - 1]
    ELSE DivLoop[2 * r, d, 2 * q, i - 1]

\* the same value with the significand shifted up to 24 bits
Normal[a \in Float] ==
    F32(a.s, a.m * Pow2(24 - BitLen[a.m]), a.e - (24 - BitLen[a.m]))

RoundQuotient[s \in Sign, qr \in Seq(Nat), E \in Int] ==
    Round[s, qr[1], E, qr[2] # 0]

\* x / y for x and y with 24 bit significands
DivNormal[x \in Float, y \in Float] ==
    RoundQuotient[x.s * y.s, DivLoop[x.m % y.m, y.m, x.m \div y.m, 26],
                  x.e - y.e - 26]

Div[a \in Float, b \in Float] ==
    IF IsNaN(a) \/ IsNaN(b) THEN NaN
    ELSE IF IsInf(a) THEN (IF IsInf(b) THEN NaN ELSE Inf(a.s * b.s))
    ELSE IF IsInf(b) THEN Zero
    ELSE IF IsZero(b) THEN (IF IsZero(a) THEN NaN ELSE Inf(a.s))
    ELSE IF IsZero(a) THEN Zero
    ELSE DivNormal[Normal[a], Normal[b]]

IsNegative[d \in Float] == ~IsNaN(d) /\ ~IsZero(d) /\ d.s = 0 - 1

Lt[a \in Float, b \in Float] ==
    IF IsNaN(a) \/ IsNaN(b) THEN FALSE
    ELSE IF a = b THEN FALSE
    ELSE IsNegative[Sub[a, b]]

Le[a \in Float, b \in Float] == ~IsNaN(a) /\ ~IsNaN(b) /\ ~Lt[b, a]

\* f32::max and f32::min: a NaN operand is ignored
FMax[a \in Float, b \in Float] ==
    IF IsNaN(a) THEN b ELSE IF IsNaN(b) THEN a ELSE IF Lt[a, b] THEN b ELSE a
FMin[a \in Float, b \in Float] ==
    IF IsNaN(a) THEN b ELSE IF IsNaN(b) THEN a ELSE IF Lt[b, a] THEN b ELSE a

\* the binary32 nearest to the rational n / d  (how rustc reads a literal)
Lit[n \in Nat, d \in Nat] == Div[Round[1, n, 0, FALSE], Round[1, d, 0, FALSE]]

One == Lit[1, 1]
Half == Lit[1, 2]
Tenth == Lit[1, 10]
Thousandth == Lit[1, 1000]
TwoAndHalf == Lit[5, 2]

\* E.powf(x): the exponential, by its Taylor polynomial evaluated in binary32
\* (Horner form).  Within 3 units in the last place of e^x for 0 <= x <= 2.5,
\* that is for every score up to 1.0; for larger x a positive under-estimate.
ExpTerms == 14
Recip == [k \in 1..ExpTerms |-> Lit[1, k]]

Horner[y \in Float, k \in Nat, p \in Float] ==
    IF k = 0 THEN p ELSE Horner[y, k - 1, Add[One, Mul[Mul[y, Recip[k]], p]]]

powf[x \in Float] ==
    IF IsNaN(x) THEN NaN
    ELSE IF IsInf(x) THEN (IF x.s = 1 THEN x ELSE Zero)
    ELSE Horner[x, ExpTerms, One]

\* `x as u32`: towards zero, saturating, NaN to 0.  A u32 is kept as its two
\* 16 bit halves
U32(hi, lo) == [hi |-> hi, lo |-> lo]

as_u32[a \in Float] ==
    IF IsNaN(a) \/ IsZero(a) \/ a.s = 0 - 1 THEN U32(0, 0)
    ELSE IF IsInf(a) THEN U32(65535, 65535)
    ELSE IF a.e >= 0
         THEN (IF BitLen[a.m] + a.e > 32 THEN U32(65535, 65535)
               ELSE IF a.e >= 16 THEN U32(a.m * Pow2(a.e - 16), 0)
               ELSE U32(a.m \div Pow2(16 - a.e), (a.m % Pow2(16 - a.e)) * Pow2(a.e)))
    ELSE IF 0 - a.e > 30 THEN U32(0, 0)
    ELSE U32((a.m \div Pow2(0 - a.e)) \div 65536, (a.m \div Pow2(0 - a.e)) % 65536)

\* Ord for u32
LtU32(a, b) == a.hi < b.hi \/ (a.hi = b.hi /\ a.lo < b.lo)

(***************************************************************************)
(* The scoring functions.                                                  *)
(***************************************************************************)
\* increase_fn without the factor 0.001
increase_fn_unscaled(trust_score) ==
    Mul[Half, powf[Mul[TwoAndHalf, trust_score]]]

increase_fn(trust_score) ==
    Mul[Thousandth, Mul[Half, powf[Mul[TwoAndHalf, trust_score]]]]

\* decrease_fn with the operands of the outer subtraction swapped
decrease_fn_swapped(trust_score) ==
    Mul[Thousandth, Sub[Div[One, Sub[One, Mul[TwoAndHalf, trust_score]]], One]]

decrease_fn(trust_score) ==
    Mul[Thousandth, Sub[One, Div[One, Sub[One, Mul[TwoAndHalf, trust_score]]]]]

(***************************************************************************)
(* Storage and the outcome of the latest call.                             *)
(***************************************************************************)
VARIABLES
    TrustScores,    \* storage map: validator -> NodeTrustData, for the keys present
    ValidatorList,  \* storage value: Vec<AccountId>
    block_number,   \* frame_system's block height
    call,           \* the latest call and its arguments
    result,         \* what the latest call returned
    events,         \* the events the latest call deposited, in order
    removed,        \* history: the validators cleanup_validators has removed
    BankAccounts    \* storage map of the banking_account pallet

vars == <<TrustScores, ValidatorList, block_number, call, result, events,
          removed, BankAccounts>>

NodeTrustData(v, score, succ, failed, updated, flagged) ==
    [validator |-> v, trust_score |-> score, successful_validations |-> succ,
     failed_validations |-> failed, last_updated |-> updated,
     flagged_for_removal |-> flagged]

\* the events of decl_event!
TrustScoreUpdated(v, score) == [kind |-> "TrustScoreUpdated", validator |-> v, score |-> score]
ValidatorAdded(v) == [kind |-> "ValidatorAdded", validator |-> v]
ValidatorRemoved(v) == [kind |-> "ValidatorRemoved", validator |-> v]
ValidationSuccessful(v, score) == [kind |-> "ValidationSuccessful", validator |-> v, score |-> score]
ValidationFailed(v, score) == [kind |-> "ValidationFailed", validator |-> v, score |-> score]

\* StorageMap::insert and StorageMap::remove
Insert(map, k, data) == [x \in DOMAIN map \cup {k} |-> IF x = k THEN data ELSE map[x]]
Remove(map, k) == [x \in DOMAIN map \ {k} |-> map[x]]

Range(seq) == {seq[i] : i \in 1..Len(seq)}

\* the validators whose record is unflagged and has counted a vote
Voting(map) ==
    {v \in DOMAIN map : /\ ~map[v].flagged_for_removal
                        /\ map[v].successful_validations + map[v].failed_validations > 0}

Init ==
    /\ TrustScores = << >>
    /\ ValidatorList = << >>
    /\ block_number = 0
    /\ call = [op |-> "genesis"]
    /\ result = "Ok"
    /\ events = << >>
    /\ removed = {}
    /\ BankAccounts = << >>

(***************************************************************************)
(* initialize_validator: the record is written and the identity pushed     *)
(* without looking at what the storage holds.                              *)
(***************************************************************************)
\* initialize_validator without the push of line 115
initialize_validator_unlisted(validator) ==
    /\ Len(ValidatorList) < MaxList
    /\ LET initial_trust_data ==
               NodeTrustData(validator, Half, 0, 0, block_number, FALSE)
       IN  TrustScores' = Insert(TrustScores, validator, initial_trust_data)
    /\ events' = <<ValidatorAdded(validator)>>
    /\ result' = "Ok"
    /\ call' = [op |-> "initialize_validator", validator |-> validator]
    /\ UNCHANGED <<ValidatorList, block_number, removed, BankAccounts>>

initialize_validator(validator) ==
    /\ Len(ValidatorList) < MaxList
    /\ LET initial_trust_data ==
               NodeTrustData(validator, Half, 0, 0, block_number, FALSE)
       IN  TrustScores' = Insert(TrustScores, validator, initial_trust_data)
    /\ ValidatorList' = Append(ValidatorList, validator)
    /\ events' = <<ValidatorAdded(validator)>>
    /\ result' = "Ok"
    /\ call' = [op |-> "initialize_validator", validator |-> validator]
    /\ UNCHANGED <<block_number, removed, BankAccounts>>

(***************************************************************************)
(* update_trust_score                                                      *)
(***************************************************************************)
\* Updated, but the timestamp of the record is left as it was
Updated_keeps_timestamp(trust_data, vote_matched, now) ==
    IF vote_matched
    THEN [trust_data EXCEPT
            !.trust_score = FMin[Add[trust_data.trust_score,
                                     increase_fn(trust_data.trust_score)], One],
            !.successful_validations = @ + 1]
    ELSE LET score == FMax[Sub[trust_data.trust_score,
                               decrease_fn(trust_data.trust_score)], Zero]
         IN  [trust_data EXCEPT
                !.trust_score = score,
                !.failed_validations = @ + 1,
                !.flagged_for_removal = Lt[score, Tenth]]

\* Updated, but every failed vote sets the flag
Updated_flags_every_failure(trust_data, vote_matched, now) ==
    IF vote_matched
    THEN [trust_data EXCEPT
            !.trust_score = FMin[Add[trust_data.trust_score,
                                     increase_fn(trust_data.trust_score)], One],
            !.successful_validations = @ + 1,
            !.last_updated = now]
    ELSE [trust_data EXCEPT
            !.trust_score = FMax[Sub[trust_data.trust_score,
                                     decrease_fn(trust_data.trust_score)], Zero],
            !.failed_validations = @ + 1,
            !.flagged_for_removal = TRUE,
            !.last_updated = now]

\* lines 139-155: the new record of an unflagged validator
Updated(trust_data, vote_matched, now) ==
    IF vote_matched
    THEN LET increase == increase_fn(trust_data.trust_score)
         IN  [trust_data EXCEPT
                !.trust_score = FMin[Add[trust_data.trust_score, increase], One],
                !.successful_validations = @ + 1,
                !.last_updated = now]
    ELSE LET decrease == decrease_fn(trust_data.trust_score)
             score == FMax[Sub[trust_data.trust_score, decrease], Zero]
         IN  [trust_data EXCEPT
                !.trust_score = score,
                !.failed_validations = @ + 1,
                !.flagged_for_removal = Lt[score, Tenth],
                !.last_updated = now]

\* the events of lines 151 and 158-163
UpdateEvents(validator, vote_matched, trust_data) ==
    (IF trust_data.flagged_for_removal
     THEN <<ValidatorRemoved(validator)>> ELSE << >>)
    \o <<IF vote_matched
         THEN ValidationSuccessful(validator, trust_data.trust_score)
         ELSE ValidationFailed(validator, trust_data.trust_score)>>
    \o <<TrustScoreUpdated(validator, trust_data.trust_score)>>

\* try_mutate without the early return of lines 134-136
try_mutate_ignoring_flag(map, validator, vote_matched, now) ==
    IF validator \notin DOMAIN map
    THEN [ts |-> map, ev |-> << >>, res |-> "ValidatorNotFound"]
    ELSE LET trust_data == Updated(map[validator], vote_matched, now)
         IN  [ts |-> [map EXCEPT ![validator] = trust_data],
              ev |-> UpdateEvents(validator, vote_matched, trust_data),
              res |-> "Ok"]

\* try_mutate that creates the record of an unknown validator instead of
\* returning ValidatorNotFound
try_mutate_creating(map, validator, vote_matched, now) ==
    IF validator \notin DOMAIN map
    THEN [ts |-> Insert(map, validator, NodeTrustData(validator, Half, 0, 0, now, FALSE)),
          ev |-> << >>, res |-> "Ok"]
    ELSE IF map[validator].flagged_for_removal
    THEN [ts |-> map, ev |-> << >>, res |-> "Ok"]
    ELSE LET trust_data == Updated(map[validator], vote_matched, now)
         IN  [ts |-> [map EXCEPT ![validator] = trust_data],
              ev |-> UpdateEvents(validator, vote_matched, trust_data),
              res |-> "Ok"]

\* TrustScores::try_mutate with the closure of lines 130-166: the map it
\* leaves, the events deposited and the value returned
try_mutate(map, validator, vote_matched, now) ==
    IF validator \notin DOMAIN map
    THEN [ts |-> map, ev |-> << >>, res |-> "ValidatorNotFound"]
    ELSE IF map[validator].flagged_for_removal
    THEN [ts |-> map, ev |-> << >>, res |-> "Ok"]
    ELSE LET trust_data == Updated(map[validator], vote_matched, now)
         IN  [ts |-> [map EXCEPT ![validator] = trust_data],
              ev |-> UpdateEvents(validator, vote_matched, trust_data),
              res |-> "Ok"]

\* the bounds of the model: a record counts at most MaxSucc matching and
\* MaxFailed failing votes, and at most MaxVoting validators are between
\* their first vote and their flagging at any time
WithinBounds(validator, vote_matched) ==
    validator \in DOMAIN TrustScores /\ ~TrustScores[validator].flagged_for_removal
    => /\ IF vote_matched
          THEN TrustScores[validator].successful_validations < MaxSucc
          ELSE TrustScores[validator].failed_validations < MaxFailed
       /\ Cardinality(Voting(TrustScores) \cup {validator}) <= MaxVoting

update_trust_score(validator, vote_matched) ==
    /\ LET out == try_mutate(TrustScores, validator, vote_matched, block_number)
       IN  /\ TrustScores' = out.ts
           /\ events' = out.ev
           /\ result' = out.res
    /\ call' = [op |-> "update_trust_score", validator |-> validator,
                vote_matched |-> vote_matched]
    /\ UNCHANGED <<ValidatorList, block_number, removed, BankAccounts>>

(***************************************************************************)
(* cleanup_validators and the two definitions of remove_validator.  A      *)
(* storage state is a record [ts, list, ev].                               *)
(***************************************************************************)
\* remove_validator_if_flagged taking one entry out of the roster, not all
remove_validator_if_flagged_once(st, validator) ==
    IF validator \in DOMAIN st.ts /\ st.ts[validator].flagged_for_removal
    THEN LET first == CHOOSE i \in 1..Len(st.list) :
                         /\ st.list[i] = validator
                         /\ \A j \in 1..(i - 1) : st.list[j] # validator
         IN  [ts |-> Remove(st.ts, validator),
              list |-> SubSeq(st.list, 1, first - 1)
                         \o SubSeq(st.list, first + 1, Len(st.list)),
              ev |-> Append(st.ev, ValidatorRemoved(validator))]
    ELSE st

\* lines 203-211: removes only a record that exists and is flagged
remove_validator_if_flagged(st, validator) ==
    IF validator \in DOMAIN st.ts /\ st.ts[validator].flagged_for_removal
    THEN [ts |-> Remove(st.ts, validator),
          list |-> SelectSeq(st.list, LAMBDA v : v # validator),
          ev |-> Append(st.ev, ValidatorRemoved(validator))]
    ELSE st

\* remove_validator that forgets the roster
remove_validator_ledger_only(st, validator) ==
    [ts |-> Remove(st.ts, validator),
     list |-> st.list,
     ev |-> Append(st.ev, ValidatorRemoved(validator))]

\* lines 218-223: removes unconditionally
remove_validator(st, validator) ==
    [ts |-> Remove(st.ts, validator),
     list |-> SelectSeq(st.list, LAMBDA v : v # validator),
     ev |-> Append(st.ev, ValidatorRemoved(validator))]

\* the filter of cleanup_validators, stopping at the first flagged validator
validators_to_remove_first ==
    LET all == SelectSeq(ValidatorList,
                         LAMBDA v : IF v \in DOMAIN TrustScores
                                    THEN TrustScores[v].flagged_for_removal ELSE FALSE)
    IN  IF all = << >> THEN all ELSE <<Head(all)>>

\* the filter of cleanup_validators
validators_to_remove ==
    SelectSeq(ValidatorList,
              LAMBDA v : IF v \in DOMAIN TrustScores
                         THEN TrustScores[v].flagged_for_removal ELSE FALSE)

RECURSIVE RemoveEach(_, _, _)
RemoveEach(st, to_remove, definition) ==
    IF to_remove = << >> THEN st
    ELSE RemoveEach(IF definition = 1
                    THEN remove_validator_if_flagged(st, Head(to_remove))
                    ELSE remove_validator(st, Head(to_remove)),
                    Tail(to_remove), definition)

\* the source defines remove_validator twice; `definition` is the one the
\* build resolves the call to
cleanup_validators(definition) ==
    /\ LET st == RemoveEach([ts |-> TrustScores, list |-> ValidatorList, ev |-> << >>],
                            validators_to_remove, definition)
       IN  /\ TrustScores' = st.ts
           /\ ValidatorList' = st.list
           /\ events' = st.ev
           /\ removed' = removed \cup (DOMAIN TrustScores \ DOMAIN st.ts)
    /\ result' = "Ok"
    /\ call' = [op |-> "cleanup_validators"]
    /\ UNCHANGED <<block_number, BankAccounts>>

\* Module::get_trust_score: {} is None, {x} is Some(x)
get_trust_score(map, validator) ==
    IF validator \in DOMAIN map THEN {map[validator].trust_score} ELSE {}

\* Module::get_validators_by_trust.  Lines 226-227 declare the pairs as
\* (AccountId, u32) while get_trust_score yields an f32; score_type is the
\* type the build gives the second component: "u32" (the score converted, as
\* declared) or "f32" (the score kept).  sort_by is stable and the comparator
\* is b.1 against a.1, so a pair moves behind every pair with a greater key
\* and behind the earlier pairs with an equal key.
ScoreTypes == {"u32", "f32"}

get_validators_by_trust(score_type) ==
    LET listed == SelectSeq(ValidatorList, LAMBDA v : v \in DOMAIN TrustScores)
        validators ==
            [i \in 1..Len(listed) |->
                <<listed[i],
                  IF score_type = "u32"
                  THEN as_u32[TrustScores[listed[i]].trust_score]
                  ELSE TrustScores[listed[i]].trust_score>>]
        Less(x, y) == IF score_type = "u32" THEN LtU32(x, y) ELSE Lt[x, y]
        Before(j, i) ==
            \/ Less(validators[i][2], validators[j][2])
            \/ (~Less(validators[j][2], validators[i][2]) /\ j < i)
        place(i) == 1 + Cardinality({j \in 1..Len(listed) : Before(j, i)})
    IN  [k \in 1..Len(listed) |->
            validators[CHOOSE i \in 1..Len(listed) : place(i) = k]]

(***************************************************************************)
(* frame_system moves to the next block.                                   *)
(***************************************************************************)
next_block ==
    /\ block_number < MaxBlock
    /\ block_number' = block_number + 1
    /\ call' = [op |-> "next_block"]
    /\ result' = "Ok"
    /\ events' = << >>
    /\ UNCHANGED <<TrustScores, ValidatorList, removed, BankAccounts>>

Next ==
    \/ \E v \in Validators : initialize_validator(v)
    \/ \E v \in Validators, vote_matched \in BOOLEAN :
          WithinBounds(v, vote_matched) /\ update_trust_score(v, vote_matched)
    \/ \E definition \in {1, 2} : cleanup_validators(definition)
    \/ next_block

Spec == Init /\ [][Next]_vars

(***************************************************************************)
(* The banking_account pallet (src/pallets/banking_account/src/lib.rs).    *)
(* A BankingAccount keeps the fields the pallet reads or sets itself; the  *)
(* byte strings and dates the caller supplies (account_number, ifsc_code,  *)
(* bank_name, ...) are stored as given and never looked at.  An Option is  *)
(* a set: {} is None, {x} is Some(x).                                      *)
(***************************************************************************)
Accounts == {"a1", "a2", "a3"}
Balances == {0, 1}

BankingAccount(account_holder, initial_balance, now) ==
    [account_holder |-> account_holder, opening_date |-> now,
     status |-> "Operative", current_balance |-> initial_balance,
     parent_account |-> {}, child_accounts |-> << >>]

AccountCreated(who, balance) == [kind |-> "AccountCreated", who |-> who, balance |-> balance]
SubAccountAdded(parent, sub) == [kind |-> "SubAccountAdded", parent |-> parent, sub |-> sub]

\* lines 89-150.  transfer is what Currency::transfer returns; when it fails
\* the call returns its error after the insert of line 139, and rolled_back
\* says whether the runtime runs the call in a storage transaction
create_account(account_holder, initial_balance, transfer, rolled_back) ==
    /\ IF account_holder \in DOMAIN BankAccounts
       THEN /\ result' = "AccountAlreadyExists"
            /\ events' = << >>
            /\ UNCHANGED BankAccounts
       ELSE LET new_account ==
                    BankingAccount(account_holder, initial_balance, block_number)
            IN  IF transfer = "Ok"
                THEN /\ BankAccounts' = Insert(BankAccounts, account_holder, new_account)
                     /\ events' = <<AccountCreated(account_holder, initial_balance)>>
                     /\ result' = "Ok"
                ELSE /\ BankAccounts' = IF rolled_back THEN BankAccounts
                                        ELSE Insert(BankAccounts, account_holder, new_account)
                     /\ events' = << >>
                     /\ result' = transfer
    /\ call' = [op |-> "create_account", account_holder |-> account_holder,
                initial_balance |-> initial_balance]
    /\ UNCHANGED <<TrustScores, ValidatorList, block_number, removed>>

\* lines 152-180
add_sub_account(parent, sub_account_id) ==
    /\ IF parent = sub_account_id
       THEN /\ result' = "CannotAddSelfAsChild"
            /\ events' = << >>
            /\ UNCHANGED BankAccounts
       ELSE IF parent \notin DOMAIN BankAccounts \/ sub_account_id \notin DOMAIN BankAccounts
       THEN /\ result' = "AccountNotFound"
            /\ events' = << >>
            /\ UNCHANGED BankAccounts
       ELSE LET parent_account == BankAccounts[parent]
                with_child ==
                    IF sub_account_id \in Range(parent_account.child_accounts)
                    THEN parent_account
                    ELSE [parent_account EXCEPT
                            !.child_accounts = Append(@, sub_account_id)]
            IN  /\ BankAccounts' =
                      [BankAccounts EXCEPT
                          ![parent] = with_child,
                          ![sub_account_id] = [@ EXCEPT !.parent_account = {parent}]]
                /\ events' = <<SubAccountAdded(parent, sub_account_id)>>
                /\ result' = "Ok"
    /\ call' = [op |-> "add_sub_account", parent |-> parent,
                sub_account_id |-> sub_account_id]
    /\ UNCHANGED <<TrustScores, ValidatorList, block_number, removed>>

NextBank ==
    \/ \E who \in Accounts, balance \in Balances,
          transfer \in {"Ok", "InsufficientBalance"}, rolled_back \in BOOLEAN :
          create_account(who, balance, transfer, rolled_back)
    \/ \E parent \in Accounts, sub \in Accounts : add_sub_account(parent, sub)

BankSpec == Init /\ [][NextBank]_vars

(***************************************************************************)
(* The states of a validator and the kinds of call.                        *)
(***************************************************************************)
Flagged(map) == {v \in DOMAIN map : map[v].flagged_for_removal}
Active(map) == DOMAIN map \ Flagged(map)

IsUpdate(c, v) == c.op = "update_trust_score" /\ c.validator = v
IsInitialize(c, v) == c.op = "initialize_validator" /\ c.validator = v

(***************************************************************************)
(* Failing votes alone: validators are registered once and then only       *)
(* receive votes that did not match, at most MaxRun each, all within one   *)
(* block.  The caller keeps voting for as long as a validator is           *)
(* unflagged.                                                              *)
(***************************************************************************)
Register(v) == v \notin DOMAIN TrustScores /\ initialize_validator(v)

FailedVote(v) ==
    /\ v \in Active(TrustScores)
    /\ TrustScores[v].failed_validations < MaxRun
    /\ update_trust_score(v, FALSE)

NextFailing ==
    \/ \E v \in Validators : Register(v)
    \/ \E v \in Validators : FailedVote(v)

FailingSpec ==
    Init /\ [][NextFailing]_vars /\ \A v \in Validators : WF_vars(FailedVote(v))

(***************************************************************************)
(* One validator at a time, with votes of both kinds: at most MaxSoloSucc  *)
(* matching and MaxSoloFailed failing votes on its record.                 *)
(***************************************************************************)
RegisterSolo(v) == DOMAIN TrustScores = {} /\ initialize_validator(v)

Vote(v, vote_matched) ==
    /\ v \in Active(TrustScores)
    /\ IF vote_matched
       THEN TrustScores[v].successful_validations < MaxSoloSucc
       ELSE TrustScores[v].failed_validations < MaxSoloFailed
    /\ update_trust_score(v, vote_matched)

NextSolo ==
    \/ \E v \in Validators : RegisterSolo(v)
    \/ \E v \in Validators, vote_matched \in BOOLEAN : Vote(v, vote_matched)
    \/ next_block

SoloSpec == Init /\ [][NextSolo]_vars

(***************************************************************************)
(* The claims.                                                             *)
(***************************************************************************)

\* C1: every record stored in TrustScores has 0.0 <= trust_score <= 1.0.
C1_ScoreInUnitInterval ==
    \A v \in DOMAIN TrustScores :
        /\ Le[Zero, TrustScores[v].trust_score]
        /\ Le[TrustScores[v].trust_score, One]

\* C2: the identities occurring in ValidatorList are exactly the keys of
\* TrustScores.
C2_RosterEqualsLedgerKeys == Range(ValidatorList) = DOMAIN TrustScores

\* a cleanup has removed a flagged validator and left an unflagged one behind
C2_Witness ==
    /\ call.op = "cleanup_validators"
    /\ events # << >>
    /\ DOMAIN TrustScores # {}
    /\ Range(ValidatorList) = DOMAIN TrustScores

\* C3: initialize_validator on an identity that has a record fails with
\* AlreadyExists and changes neither TrustScores nor ValidatorList nor emits
\* an event.
C3_InitializeRejectsExisting ==
    [][\A v \in Validators :
          IsInitialize(call', v) /\ v \in DOMAIN TrustScores
          => /\ result' = "AlreadyExists"
             /\ TrustScores' = TrustScores
             /\ ValidatorList' = ValidatorList
             /\ events' = << >>]_vars

\* C4: update_trust_score on a flagged record, whatever the vote, returns Ok,
\* leaves the record as it is and emits no event.
C4_FlaggedUpdateIsNoOp ==
    [][\A v \in Validators :
          IsUpdate(call', v) /\ v \in Flagged(TrustScores)
          => /\ result' = "Ok"
             /\ v \in DOMAIN TrustScores'
             /\ TrustScores'[v] = TrustScores[v]
             /\ events' = << >>]_vars

\* a matching vote has just been cast for a flagged validator, one block after
\* the record was last written
C4_Witness ==
    /\ call.op = "update_trust_score"
    /\ call.vote_matched
    /\ call.validator \in Flagged(TrustScores)
    /\ TrustScores[call.validator].last_updated < block_number
    /\ result = "Ok"
    /\ events = << >>

\* C5: a flagged record stays flagged for as long as it exists.
C5_FlaggedUntilRemoved ==
    [][\A v \in Flagged(TrustScores) :
          v \in DOMAIN TrustScores' => TrustScores'[v].flagged_for_removal]_vars

\* C6: cleanup_validators leaves no validator that was flagged, neither in
\* TrustScores nor in ValidatorList, and get_trust_score finds none of them.
C6_CleanupRemovesEveryFlagged ==
    [][call'.op = "cleanup_validators"
       => \A v \in Flagged(TrustScores) :
             /\ v \notin DOMAIN TrustScores'
             /\ v \notin Range(ValidatorList')
             /\ get_trust_score(TrustScores', v) = {}]_vars

\* a cleanup has just removed two different validators
C6_Witness ==
    /\ call.op = "cleanup_validators"
    /\ Cardinality({events[i].validator : i \in 1..Len(events)}) >= 2
    /\ \A i \in 1..Len(events) : events[i].validator \notin DOMAIN TrustScores
    /\ \A i \in 1..Len(events) : events[i].validator \notin Range(ValidatorList)

\* C7: update_trust_score on an identity without a record returns
\* ValidatorNotFound and changes nothing.
C7_UnknownValidatorNotFound ==
    [][\A v \in Validators :
          IsUpdate(call', v) /\ v \notin DOMAIN TrustScores
          => /\ result' = "ValidatorNotFound"
             /\ TrustScores' = TrustScores
             /\ ValidatorList' = ValidatorList
             /\ events' = << >>]_vars

\* an update was refused for a validator that is unknown while another one is
\* registered
C7_Witness ==
    /\ call.op = "update_trust_score"
    /\ call.validator \notin DOMAIN TrustScores
    /\ result = "ValidatorNotFound"
    /\ DOMAIN TrustScores # {}
    /\ events = << >>

\* C8: the two counters of a record never decrease while the record exists.
C8_CountersNeverDecrease ==
    [][\A v \in DOMAIN TrustScores :
          v \in DOMAIN TrustScores'
          => /\ TrustScores'[v].successful_validations
                  >= TrustScores[v].successful_validations
             /\ TrustScores'[v].failed_validations
                  >= TrustScores[v].failed_validations]_vars

\* C9: a failed vote on an unflagged record never raises its trust_score.
C9_FailedVoteNeverRaisesScore ==
    [][\A v \in Validators :
          IsUpdate(call', v) /\ ~call'.vote_matched /\ v \in Active(TrustScores)
          => Le[TrustScores'[v].trust_score, TrustScores[v].trust_score]]_vars

\* C10: a failed vote on an unflagged record adds one to failed_validations,
\* keeps successful_validations, stamps last_updated with the block height,
\* flags the record exactly when the new score is below 0.1, and emits
\* ValidatorRemoved (when flagging), ValidationFailed, TrustScoreUpdated in
\* that order.
C10_FailedVoteEffect ==
    [][\A v \in Validators :
          IsUpdate(call', v) /\ ~call'.vote_matched /\ v \in Active(TrustScores)
          => LET old == TrustScores[v]
                 new == TrustScores'[v]
                 tail == <<ValidationFailed(v, new.trust_score),
                           TrustScoreUpdated(v, new.trust_score)>>
             IN  /\ result' = "Ok"
                 /\ new.failed_validations = old.failed_validations + 1
                 /\ new.successful_validations = old.successful_validations
                 /\ new.last_updated = block_number
                 /\ IF Lt[new.trust_score, Tenth]
                    THEN /\ new.flagged_for_removal
                         /\ events' = <<ValidatorRemoved(v)>> \o tail
                    ELSE /\ ~new.flagged_for_removal
                         /\ events' = tail]_vars

\* a failed vote cast after block 0 has just flagged a validator and stamped
\* its record with the height of that block
C10_Witness ==
    /\ call.op = "update_trust_score"
    /\ ~call.vote_matched
    /\ Len(events) = 3
    /\ events[1] = ValidatorRemoved(call.validator)
    /\ TrustScores[call.validator].flagged_for_removal
    /\ TrustScores[call.validator].last_updated = block_number
    /\ block_number > 0

\* C11: a matching vote on an unflagged record with score s sets the score to
\* min(s + 0.001*0.5*e^(2.5*s), 1.0), which from 0.5 is 0.501745 to six
\* places, adds one to successful_validations, keeps failed_validations and
\* the flag, stamps last_updated with the block height, and emits
\* ValidationSuccessful then TrustScoreUpdated and nothing else.
C11_SuccessfulVoteEffect ==
    [][\A v \in Validators :
          IsUpdate(call', v) /\ call'.vote_matched /\ v \in Active(TrustScores)
          => LET old == TrustScores[v]
                 new == TrustScores'[v]
                 s == old.trust_score
             IN  /\ result' = "Ok"
                 /\ new.trust_score
                      = FMin[Add[s, Mul[Mul[Thousandth, Half],
                                        powf[Mul[TwoAndHalf, s]]]], One]
                 /\ s = Half => /\ Le[Lit[501744, 1000000], new.trust_score]
                                /\ Le[new.trust_score, Lit[501746, 1000000]]
                 /\ new.successful_validations = old.successful_validations + 1
                 /\ new.failed_validations = old.failed_validations
                 /\ ~new.flagged_for_removal
                 /\ new.last_updated = block_number
                 /\ events' = <<ValidationSuccessful(v, new.trust_score),
                                TrustScoreUpdated(v, new.trust_score)>>]_vars

\* the first vote of a validator, cast after block 0, matched and took the
\* score from 0.5 to 0.501745
C11_Witness ==
    /\ call.op = "update_trust_score"
    /\ call.vote_matched
    /\ call.validator \in Active(TrustScores)
    /\ TrustScores[call.validator].successful_validations = 1
    /\ TrustScores[call.validator].failed_validations = 0
    /\ Lt[Lit[501744, 1000000], TrustScores[call.validator].trust_score]
    /\ Lt[TrustScores[call.validator].trust_score, Lit[501746, 1000000]]
    /\ TrustScores[call.validator].last_updated = block_number
    /\ block_number > 0
    /\ Len(events) = 2

\* C12: right after initialize_validator(V) has returned Ok, get_trust_score(V)
\* is exactly 0.5 (2^23 * 2^-24), V's counters are 0 and its flag is unset, V is
\* in ValidatorList, and the call emitted ValidatorAdded(V) and nothing else.
C12_InitializeEffect ==
    call.op = "initialize_validator" /\ result = "Ok"
    => /\ get_trust_score(TrustScores, call.validator) = {F32(1, 8388608, 0 - 24)}
       /\ TrustScores[call.validator].successful_validations = 0
       /\ TrustScores[call.validator].failed_validations = 0
       /\ ~TrustScores[call.validator].flagged_for_removal
       /\ call.validator \in Range(ValidatorList)
       /\ events = <<ValidatorAdded(call.validator)>>

\* a second validator has just been initialized, after block 0
C12_Witness ==
    /\ call.op = "initialize_validator"
    /\ result = "Ok"
    /\ Cardinality(DOMAIN TrustScores) = 2
    /\ get_trust_score(TrustScores, call.validator) = {Half}
    /\ ValidatorList[Len(ValidatorList)] = call.validator
    /\ block_number > 0

\* C13: in every reachable state get_validators_by_trust() returns a sequence
\* whose validators' scores do not increase from first to last, whose
\* identities are exactly the validators of ValidatorList that have a record,
\* each paired with its current trust_score, and in which of two validators
\* with different scores the one with the higher score comes first.
C13_RankingDescending ==
    \A score_type \in ScoreTypes :
        LET ranking == get_validators_by_trust(score_type)
            score(i) == TrustScores[ranking[i][1]].trust_score
        IN  /\ {ranking[i][1] : i \in 1..Len(ranking)}
                 = Range(ValidatorList) \cap DOMAIN TrustScores
            /\ \A i \in 1..Len(ranking) : ranking[i][2] = score(i)
            /\ \A i \in 1..Len(ranking) - 1 : Le[score(i + 1), score(i)]
            /\ \A i, j \in 1..Len(ranking) : Lt[score(j), score(i)] => i < j

\* C14: once V has been flagged and removed by cleanup_validators, the next
\* initialize_validator(V) returns Ok and leaves a fresh unflagged record
\* (score 0.5, counters 0) and V exactly once in ValidatorList.
C14_ReinitializeAfterRemoval ==
    [][\A v \in Validators :
          v \in removed /\ v \notin DOMAIN TrustScores /\ IsInitialize(call', v)
          => /\ result' = "Ok"
             /\ TrustScores'[v] = NodeTrustData(v, Half, 0, 0, block_number, FALSE)
             /\ Len(SelectSeq(ValidatorList', LAMBDA x : x = v)) = 1]_vars

\* a validator that cleanup_validators had removed has just been initialized
\* again, in a later block, next to another registered validator
C14_Witness ==
    /\ call.op = "initialize_validator"
    /\ call.validator \in removed
    /\ TrustScores[call.validator]
         = NodeTrustData(call.validator, Half, 0, 0, block_number, FALSE)
    /\ Len(SelectSeq(ValidatorList, LAMBDA x : x = call.validator)) = 1
    /\ Cardinality(DOMAIN TrustScores) = 2
    /\ block_number > 0

\* C15: cleanup_validators emits no notification, so that the ValidatorRemoved
\* emitted when a validator is flagged stays the only one of its lifecycle.
C15_CleanupIsSilent ==
    [][call'.op = "cleanup_validators" => events' = << >>]_vars

\* C16: a freshly initialized validator that receives nothing but failed
\* votes is flagged after finitely many of them.
C16_FailedVotesFlag ==
    \A v \in Validators : (v \in Active(TrustScores)) ~> (v \in Flagged(TrustScores))

\* a validator has been flagged by failed votes alone
C16_Witness ==
    \E v \in Flagged(TrustScores) :
        /\ TrustScores[v].successful_validations = 0
        /\ TrustScores[v].failed_validations > 0
        /\ Lt[TrustScores[v].trust_score, Tenth]

\* C17: a matching vote on an unflagged record never lowers its trust_score,
\* and raises it when the score before the vote is below 1.0.
C17_SuccessNeverLowersScore ==
    [][\A v \in Validators :
          IsUpdate(call', v) /\ call'.vote_matched /\ v \in Active(TrustScores)
          => /\ Le[TrustScores[v].trust_score, TrustScores'[v].trust_score]
             /\ Lt[TrustScores[v].trust_score, One]
                => Lt[TrustScores[v].trust_score, TrustScores'[v].trust_score]]_vars

\* C18: in every reachable state a record is flagged for removal exactly when
\* its trust_score is below 0.1.
C18_FlaggedIffBelowThreshold ==
    \A v \in DOMAIN TrustScores :
        TrustScores[v].flagged_for_removal <=> Lt[TrustScores[v].trust_score, Tenth]

\* a failed vote has just flagged one validator while the record of another,
\* which has a score of 0.1 or more, is unflagged
C18_Witness ==
    /\ call.op = "update_trust_score"
    /\ ~call.vote_matched
    /\ call.validator \in Flagged(TrustScores)
    /\ Lt[TrustScores[call.validator].trust_score, Tenth]
    /\ events # << >>
    /\ \E v \in Active(TrustScores) : Le[Tenth, TrustScores[v].trust_score]

\* C19: in every reachable state ValidatorList holds each identity at most
\* once, and so does the result of get_validators_by_trust().
C19_RosterHasNoDuplicates ==
    /\ \A i, j \in 1..Len(ValidatorList) :
          ValidatorList[i] = ValidatorList[j] => i = j
    /\ \A score_type \in ScoreTypes :
          LET ranking == get_validators_by_trust(score_type)
          IN  \A i, j \in 1..Len(ranking) : ranking[i][1] = ranking[j][1] => i = j

\* C20: after any sequence of create_account and add_sub_account calls, C is
\* listed in P.child_accounts exactly when C.parent_account is Some(P), and no
\* child_accounts lists a child twice.
C20_ParentChildConsistent ==
    \A p \in DOMAIN BankAccounts :
        /\ \A c \in Accounts :
              c \in Range(BankAccounts[p].child_accounts)
              <=> (c \in DOMAIN BankAccounts /\ BankAccounts[c].parent_account = {p})
        /\ \A i, j \in 1..Len(BankAccounts[p].child_accounts) :
              BankAccounts[p].child_accounts[i] = BankAccounts[p].child_accounts[j]
              => i = j
====
